---- MODULE Spec2Model ----
(***************************************************************************)
(* State-machine model of the voice-notes App component (src/src/App.tsx). *)
(* React state is one variable per useState cell; every asynchronous       *)
(* handler is split at its awaits, and the values a handler closes over    *)
(* (recordingStart, dictionary, user) are captured when it is invoked.     *)
(***************************************************************************)
EXTENDS Integers, Sequences, FiniteSets, TLC

\* ---------------------------------------------------------------- bounds
MaxStarts == 2
MaxTime == 3
MaxSlices == 1
MaxChunkSize == 1
MaxOps == 2
MaxTextLen == 3

NotesLimit == 50

\* ------------------------------------------------------------------ text
\* A string is a sequence of one-character strings over the letters, the
\* space and the dot.
Letters == {"a", "A", "b", "B"}

Lower(c) == IF c = "A" THEN "a" ELSE IF c = "B" THEN "b" ELSE c

IsWordChar(c) == c \in Letters

IsSpace(c) == c = " "

RECURSIVE TrimStart(_)
TrimStart(s) ==
  IF s = <<>> THEN <<>>
  ELSE IF IsSpace(Head(s)) THEN TrimStart(Tail(s))
  ELSE s

RECURSIVE TrimEnd(_)
TrimEnd(s) ==
  IF s = <<>> THEN <<>>
  ELSE IF IsSpace(s[Len(s)]) THEN TrimEnd(SubSeq(s, 1, Len(s) - 1))
  ELSE s

Trim(s) == TrimEnd(TrimStart(s))

\* \b at position p (between s[p-1] and s[p])
WordAt(s, q) == q \in 1..Len(s) /\ IsWordChar(s[q])

Boundary(s, p) == WordAt(s, p - 1) # WordAt(s, p)

\* one character of the word, read as a regular expression with the i flag: a
\* dot matches any character, every other character of the alphabet itself
AtomMatches(p, c) == p = "." \/ Lower(c) = Lower(p)

\* new RegExp(`\\b${word}\\b`, 'gi') matching at position i
MatchAt(s, word, i) ==
  /\ i + Len(word) - 1 <= Len(s)
  /\ \A k \in 1..Len(word) : AtomMatches(word[k], s[i + k - 1])
  /\ Boundary(s, i)
  /\ Boundary(s, i + Len(word))

RECURSIVE ReplaceFrom(_, _, _, _)
ReplaceFrom(s, word, repl, i) ==
  IF i > Len(s) THEN <<>>
  ELSE IF MatchAt(s, word, i)
       THEN repl \o ReplaceFrom(s, word, repl, i + Len(word))
       ELSE <<s[i]>> \o ReplaceFrom(s, word, repl, i + 1)

\* processedText.replace(regex, entry.replacement)
ReplaceAll(s, word, repl) == ReplaceFrom(s, word, repl, 1)

\* dictionary.forEach(entry => processedText = processedText.replace(...))
RECURSIVE ApplyDictionary(_, _)
ApplyDictionary(dict, s) ==
  IF dict = <<>> THEN s
  ELSE ApplyDictionary(Tail(dict),
                       ReplaceAll(s, Head(dict).word, Head(dict).replacement))

\* ----------------------------------------------------------------- audio
RECURSIVE BlobSize(_)
BlobSize(chunks) ==
  IF chunks = <<>> THEN 0 ELSE Head(chunks) + BlobSize(Tail(chunks))

\* recorder.ondataavailable: keep the slice only when it has content
OnDataAvailable(chunks, size) ==
  IF size > 0 THEN Append(chunks, size) ELSE chunks

\* length of the base64 part of the data URL FileReader produces
Base64Len(size) == 4 * ((size + 2) \div 3)

\* ------------------------------------------------------ external answers
\* what blink.ai.transcribeAudio may return
Transcripts == {<<"a">>, <<"A", " ", "b">>}

\* what blink.ai.generateText may return
Corrections == {<<"A">>}

\* what the user may type into the two dictionary inputs
WordInputs == {<<>>, <<" ", "a">>, <<"b">>}

ReplacementInputs == {<<>>, <<"b">>}

\* the transcripts and dictionaries the substitution is exercised on
TextChars == {"a", "A", "b", " ", "."}

Texts == UNION {[1..k -> TextChars] : k \in 0..MaxTextLen}

EntryWords == {<<"a">>, <<"b">>, <<"a", ".">>}

EntryReplacements == {<<"a">>, <<"b">>, <<"a", "b", " ", "b">>}

Entries ==
  {[word |-> w, replacement |-> x, user_id |-> "u1"] :
     w \in EntryWords, x \in EntryReplacements}

Dictionaries ==
  {<<>>} \cup {<<e>> : e \in Entries}
         \cup {<<e, f>> : <<e, f>> \in {p \in Entries \X Entries : p[1].word # p[2].word}}

\* what the remote collections may hold before the session starts
InitialRemoteNotes ==
  <<[id |-> "0", text |-> <<"B">>, original_text |-> <<"b">>,
     timestamp |-> 0, duration |-> 0, user_id |-> "u1"]>>

InitialRemoteDictionary ==
  <<[word |-> <<"a">>, replacement |-> <<"b">>, user_id |-> "u1"]>>

\* ----------------------------------------------------------------- state
VARIABLES
  user,            \* useState: null or the signed-in user
  isRecording,     \* useState
  isTranscribing,  \* useState
  currentNote,     \* useState
  voiceNotes,      \* useState: sequence of notes
  dictionary,      \* useState: sequence of entries
  newWord,         \* useState: dictionary input
  newReplacement,  \* useState: dictionary input
  mediaRecorder,   \* useState: 0 (null) or the recorder of a startRecording call
  recordingStart,  \* useState
  now,             \* Date.now()
  auth,            \* blink.auth.me(): "pending", "resolved", "rejected"
  loadNotes,       \* the loadVoiceNotes call
  loadDict,        \* the loadDictionary call
  rec,             \* one record per startRecording call
  ops,             \* one record per dictionary/note store call
  remoteNotes,     \* the voice_notes collection
  remoteDict       \* the dictionary_entries collection

vars == <<user, isRecording, isTranscribing, currentNote, voiceNotes, dictionary,
          newWord, newReplacement, mediaRecorder, recordingStart, now, auth,
          loadNotes, loadDict, rec, ops, remoteNotes, remoteDict>>

uiVars == <<user, isRecording, isTranscribing, currentNote, voiceNotes, dictionary,
            newWord, newReplacement, mediaRecorder, recordingStart>>

Starts == 1..MaxStarts

OpIds == 1..MaxOps

NoNote ==
  [id |-> "", text |-> <<>>, original_text |-> <<>>, timestamp |-> 0, duration |-> 0]

NoRec ==
  [pc |-> "unused", capStart |-> 0, capDict |-> <<>>, stream |-> "none",
   state |-> "none", chunks |-> <<>>, startedAt |-> 0,
   stoppedAt |-> 0, pr |-> "none", duration |-> 0, err |-> "", toast |-> "",
   calls |-> <<>>, originalText |-> <<>>, processedText |-> <<>>,
   correctedText |-> <<>>, newNote |-> NoNote]

NoOp == [kind |-> "none", pc |-> "unused", key |-> <<>>, entry |-> <<>>]

NoLoad == [pc |-> "idle", snapshot |-> <<>>]

Init ==
  /\ user = "null"
  /\ isRecording = FALSE
  /\ isTranscribing = FALSE
  /\ currentNote = <<>>
  /\ voiceNotes = <<>>
  /\ dictionary = <<>>
  /\ newWord = <<>>
  /\ newReplacement = <<>>
  /\ mediaRecorder = 0
  /\ recordingStart = 0
  /\ now = 1
  /\ auth = "pending"
  /\ loadNotes = NoLoad
  /\ loadDict = NoLoad
  /\ rec = [r \in Starts |-> NoRec]
  /\ ops = [o \in OpIds |-> NoOp]
  /\ remoteNotes = InitialRemoteNotes
  /\ remoteDict = InitialRemoteDictionary

\* ----------------------------------------------------------------- clock
Tick ==
  /\ now < MaxTime
  /\ now' = now + 1
  /\ UNCHANGED <<uiVars, auth, loadNotes, loadDict, rec, ops, remoteNotes, remoteDict>>

\* ------------------------------------------------------- initializeApp
AuthResolve ==
  /\ auth = "pending"
  /\ auth' = "resolved"
  /\ user' = "u1"
  /\ loadNotes' = [loadNotes EXCEPT !.pc = "pending"]
  /\ loadDict' = [loadDict EXCEPT !.pc = "pending"]
  /\ UNCHANGED <<isRecording, isTranscribing, currentNote, voiceNotes, dictionary,
                 newWord, newReplacement, mediaRecorder, recordingStart, now, rec,
                 ops, remoteNotes, remoteDict>>

AuthReject ==
  /\ auth = "pending"
  /\ auth' = "rejected"
  /\ UNCHANGED <<uiVars, now, loadNotes, loadDict, rec, ops, remoteNotes, remoteDict>>

\* ---------------------------------------------------------- remote lists
RECURSIVE InsertDesc(_, _)
InsertDesc(n, s) ==
  IF s = <<>> THEN <<n>>
  ELSE IF Head(s).timestamp >= n.timestamp THEN <<Head(s)>> \o InsertDesc(n, Tail(s))
  ELSE <<n>> \o s

RECURSIVE SortDesc(_)
SortDesc(s) ==
  IF s = <<>> THEN <<>> ELSE InsertDesc(Head(s), SortDesc(Tail(s)))

Take(s, n) == SubSeq(s, 1, IF Len(s) < n THEN Len(s) ELSE n)

\* voice_notes.list({ orderBy: { timestamp: 'desc' }, limit: 50 })
ListNotes(store) == Take(SortDesc(store), NotesLimit)

\* words are compared as strings, character by character, by character code
CharCode(c) ==
  CASE c = " " -> 32 [] c = "." -> 46 [] c = "A" -> 65 [] c = "B" -> 66
    [] c = "a" -> 97 [] c = "b" -> 98

RECURSIVE WordLeq(_, _)
WordLeq(x, y) ==
  IF x = <<>> THEN TRUE
  ELSE IF y = <<>> THEN FALSE
  ELSE IF Head(x) = Head(y) THEN WordLeq(Tail(x), Tail(y))
  ELSE CharCode(Head(x)) < CharCode(Head(y))

RECURSIVE InsertAsc(_, _)
InsertAsc(e, s) ==
  IF s = <<>> THEN <<e>>
  ELSE IF WordLeq(Head(s).word, e.word) THEN <<Head(s)>> \o InsertAsc(e, Tail(s))
  ELSE <<e>> \o s

RECURSIVE SortAsc(_)
SortAsc(s) ==
  IF s = <<>> THEN <<>> ELSE InsertAsc(Head(s), SortAsc(Tail(s)))

\* dictionary_entries.list({ orderBy: { word: 'asc' } })
ListDictionary(store) == SortAsc(store)

\* ------------------------------------------- loadVoiceNotes/loadDictionary
LoadVoiceNotesServe ==
  /\ loadNotes.pc = "pending"
  /\ loadNotes' = [pc |-> "served", snapshot |-> ListNotes(remoteNotes)]
  /\ UNCHANGED <<uiVars, now, auth, loadDict, rec, ops, remoteNotes, remoteDict>>

LoadVoiceNotesResolve ==
  /\ loadNotes.pc = "served"
  /\ voiceNotes' = loadNotes.snapshot
  /\ loadNotes' = [pc |-> "done", snapshot |-> <<>>]
  /\ UNCHANGED <<user, isRecording, isTranscribing, currentNote, dictionary, newWord,
                 newReplacement, mediaRecorder, recordingStart, now, auth, loadDict,
                 rec, ops, remoteNotes, remoteDict>>

LoadVoiceNotesReject ==
  /\ loadNotes.pc = "pending"
  /\ loadNotes' = [pc |-> "failed", snapshot |-> <<>>]
  /\ UNCHANGED <<uiVars, now, auth, loadDict, rec, ops, remoteNotes, remoteDict>>

LoadDictionaryServe ==
  /\ loadDict.pc = "pending"
  /\ loadDict' = [pc |-> "served", snapshot |-> ListDictionary(remoteDict)]
  /\ UNCHANGED <<uiVars, now, auth, loadNotes, rec, ops, remoteNotes, remoteDict>>

LoadDictionaryResolve ==
  /\ loadDict.pc = "served"
  /\ dictionary' = loadDict.snapshot
  /\ loadDict' = [pc |-> "done", snapshot |-> <<>>]
  /\ UNCHANGED <<user, isRecording, isTranscribing, currentNote, voiceNotes, newWord,
                 newReplacement, mediaRecorder, recordingStart, now, auth, loadNotes,
                 rec, ops, remoteNotes, remoteDict>>

LoadDictionaryReject ==
  /\ loadDict.pc = "pending"
  /\ loadDict' = [pc |-> "failed", snapshot |-> <<>>]
  /\ UNCHANGED <<uiVars, now, auth, loadNotes, rec, ops, remoteNotes, remoteDict>>

\* ------------------------------------------------------- startRecording
\* the record button is rendered once user is set; its onClick is
\* startRecording while isRecording is false, and it is disabled while
\* isTranscribing
CanClickStart == user # "null" /\ ~isTranscribing /\ ~isRecording

CanClickStop == user # "null" /\ ~isTranscribing /\ isRecording

FreeStart(r) ==
  /\ rec[r].pc = "unused"
  /\ \A q \in Starts : q < r => rec[q].pc # "unused"

\* the click: startRecording runs up to `await getUserMedia`; the handler
\* closes over recordingStart and (through processRecording) dictionary
StartRecording(r) ==
  /\ CanClickStart
  /\ FreeStart(r)
  /\ rec' = [rec EXCEPT ![r].pc = "getUserMedia",
                        ![r].capStart = recordingStart,
                        ![r].capDict = dictionary]
  /\ UNCHANGED <<uiVars, now, auth, loadNotes, loadDict, ops, remoteNotes, remoteDict>>

\* getUserMedia rejects: the catch block reports and nothing else changes
GetUserMediaReject(r) ==
  /\ rec[r].pc = "getUserMedia"
  /\ rec' = [rec EXCEPT ![r].pc = "failed",
                        ![r].toast = "Failed to start recording"]
  /\ UNCHANGED <<uiVars, now, auth, loadNotes, loadDict, ops, remoteNotes, remoteDict>>

\* getUserMedia resolves with a stream, but `new MediaRecorder(stream)` throws
RecorderCtorThrows(r) ==
  /\ rec[r].pc = "getUserMedia"
  /\ rec' = [rec EXCEPT ![r].pc = "failed",
                        ![r].stream = "live",
                        ![r].toast = "Failed to start recording"]
  /\ UNCHANGED <<uiVars, now, auth, loadNotes, loadDict, ops, remoteNotes, remoteDict>>

\* the recorder is built and stored, but recorder.start(100) throws
RecorderStartThrows(r) ==
  /\ rec[r].pc = "getUserMedia"
  /\ rec' = [rec EXCEPT ![r].pc = "failed",
                        ![r].stream = "live",
                        ![r].state = "inactive",
                        ![r].toast = "Failed to start recording"]
  /\ mediaRecorder' = r
  /\ recordingStart' = now
  /\ UNCHANGED <<user, isRecording, isTranscribing, currentNote, voiceNotes, dictionary,
                 newWord, newReplacement, now, auth, loadNotes, loadDict, ops,
                 remoteNotes, remoteDict>>

\* the rest of startRecording after the await
GetUserMediaResolve(r) ==
  /\ rec[r].pc = "getUserMedia"
  /\ rec' = [rec EXCEPT ![r].pc = "started",
                        ![r].stream = "live",
                        ![r].state = "recording",
                        ![r].startedAt = now,
                        ![r].toast = "Recording started"]
  /\ mediaRecorder' = r
  /\ recordingStart' = now
  /\ isRecording' = TRUE
  /\ UNCHANGED <<user, isTranscribing, currentNote, voiceNotes, dictionary, newWord,
                 newReplacement, now, auth, loadNotes, loadDict, ops, remoteNotes,
                 remoteDict>>

\* a 100 ms slice is delivered to recorder.ondataavailable
Slice(r, size) ==
  /\ rec[r].state = "recording"
  /\ Len(rec[r].chunks) < MaxSlices
  /\ rec' = [rec EXCEPT ![r].chunks = OnDataAvailable(@, size)]
  /\ UNCHANGED <<uiVars, now, auth, loadNotes, loadDict, ops, remoteNotes, remoteDict>>

\* -------------------------------------------------------- stopRecording
StopGuard == mediaRecorder # 0 /\ rec[mediaRecorder].state = "recording"

StopRecording ==
  /\ CanClickStop
  /\ IF StopGuard
     THEN /\ rec' = [rec EXCEPT ![mediaRecorder].state = "inactive",
                                ![mediaRecorder].stream = "stopped",
                                ![mediaRecorder].pr = "stopping"]
          /\ isRecording' = FALSE
          /\ isTranscribing' = TRUE
     ELSE UNCHANGED <<rec, isRecording, isTranscribing>>
  /\ UNCHANGED <<user, currentNote, voiceNotes, dictionary, newWord, newReplacement,
                 mediaRecorder, recordingStart, now, auth, loadNotes, loadDict, ops,
                 remoteNotes, remoteDict>>

\* ----------------------------------------------------- processRecording
\* a catch block that reports the failure but forgets setIsTranscribing(false)
CatchKeepsTranscribing(base, r, error) ==
  /\ rec' = [base EXCEPT ![r].pr = "failed",
                         ![r].err = error,
                         ![r].toast = "Failed to process recording"]
  /\ UNCHANGED isTranscribing

\* the catch block of processRecording, entered with the calls' records `base`
Catch(base, r, error) ==
  /\ rec' = [base EXCEPT ![r].pr = "failed",
                         ![r].err = error,
                         ![r].toast = "Failed to process recording"]
  /\ isTranscribing' = FALSE

\* processRecording without its two emptiness checks
EmptyCheckMissing(audioChunks) == ""

\* the first two checks of processRecording: "" when the payload passes
EmptyCheck(audioChunks) ==
  IF Len(audioChunks) = 0 THEN "No audio data recorded"
  ELSE IF BlobSize(audioChunks) = 0 THEN "Audio recording is empty"
  ELSE ""

\* the task MediaRecorder.stop() queues: the last dataavailable event, then
\* the stop event, whose handler reads the clock and enters processRecording
RecorderOnStop(r, size) ==
  /\ rec[r].pr = "stopping"
  /\ LET chunks == OnDataAvailable(rec[r].chunks, size)
         duration == now - rec[r].capStart
         mid == [rec EXCEPT ![r].chunks = chunks,
                            ![r].stoppedAt = now,
                            ![r].duration = duration]
     IN IF EmptyCheck(chunks) # ""
        THEN Catch(mid, r, EmptyCheck(chunks))
        ELSE /\ rec' = [mid EXCEPT ![r].pr = "readAsDataURL"]
             /\ UNCHANGED isTranscribing
  /\ UNCHANGED <<user, isRecording, currentNote, voiceNotes, dictionary, newWord,
                 newReplacement, mediaRecorder, recordingStart, now, auth, loadNotes,
                 loadDict, ops, remoteNotes, remoteDict>>

\* reader.onload: split the data URL, reject an empty payload, else call
\* blink.ai.transcribeAudio
ReaderOnLoad(r) ==
  /\ rec[r].pr = "readAsDataURL"
  /\ IF Base64Len(BlobSize(rec[r].chunks)) = 0
     THEN Catch(rec, r, "Failed to convert audio to base64")
     ELSE /\ rec' = [rec EXCEPT ![r].pr = "transcribeAudio",
                                ![r].calls = Append(@, "transcribeAudio")]
          /\ UNCHANGED isTranscribing
  /\ UNCHANGED <<user, isRecording, currentNote, voiceNotes, dictionary, newWord,
                 newReplacement, mediaRecorder, recordingStart, now, auth, loadNotes,
                 loadDict, ops, remoteNotes, remoteDict>>

\* reader.onerror = reject
ReaderOnError(r) ==
  /\ rec[r].pr = "readAsDataURL"
  /\ Catch(rec, r, "FileReader error")
  /\ UNCHANGED <<user, isRecording, currentNote, voiceNotes, dictionary, newWord,
                 newReplacement, mediaRecorder, recordingStart, now, auth, loadNotes,
                 loadDict, ops, remoteNotes, remoteDict>>

\* the substitution reads the dictionary as it is when the transcript arrives
TranscribeResolveCurrentDictionary(r, text) ==
  /\ rec[r].pr = "transcribeAudio"
  /\ rec' = [rec EXCEPT ![r].pr = "generateText",
                        ![r].originalText = text,
                        ![r].processedText = ApplyDictionary(dictionary, text),
                        ![r].calls = Append(@, "generateText")]
  /\ UNCHANGED <<uiVars, now, auth, loadNotes, loadDict, ops, remoteNotes, remoteDict>>

\* transcribeAudio resolves: substitute, then call blink.ai.generateText
TranscribeResolve(r, text) ==
  /\ rec[r].pr = "transcribeAudio"
  /\ rec' = [rec EXCEPT ![r].pr = "generateText",
                        ![r].originalText = text,
                        ![r].processedText = ApplyDictionary(rec[r].capDict, text),
                        ![r].calls = Append(@, "generateText")]
  /\ UNCHANGED <<uiVars, now, auth, loadNotes, loadDict, ops, remoteNotes, remoteDict>>

\* a transcription failure that is swallowed: the pipeline goes on with no text
TranscribeRejectIgnored(r) ==
  /\ rec[r].pr = "transcribeAudio"
  /\ rec' = [rec EXCEPT ![r].pr = "generateText",
                        ![r].err = "transcribeAudio rejected",
                        ![r].calls = Append(@, "generateText")]
  /\ UNCHANGED <<uiVars, now, auth, loadNotes, loadDict, ops, remoteNotes, remoteDict>>

TranscribeReject(r) ==
  /\ rec[r].pr = "transcribeAudio"
  /\ Catch(rec, r, "transcribeAudio rejected")
  /\ UNCHANGED <<user, isRecording, currentNote, voiceNotes, dictionary, newWord,
                 newReplacement, mediaRecorder, recordingStart, now, auth, loadNotes,
                 loadDict, ops, remoteNotes, remoteDict>>

\* generateText resolves: build newNote, then call blink.db.voice_notes.create
GenerateResolve(r, text) ==
  /\ rec[r].pr = "generateText"
  /\ rec' = [rec EXCEPT ![r].pr = "create",
                        ![r].correctedText = text,
                        ![r].newNote = [id |-> ToString(now),
                                        text |-> text,
                                        original_text |-> rec[r].originalText,
                                        timestamp |-> now,
                                        duration |-> rec[r].duration],
                        ![r].calls = Append(@, "voice_notes.create")]
  /\ UNCHANGED <<uiVars, now, auth, loadNotes, loadDict, ops, remoteNotes, remoteDict>>

GenerateReject(r) ==
  /\ rec[r].pr = "generateText"
  /\ Catch(rec, r, "generateText rejected")
  /\ UNCHANGED <<user, isRecording, currentNote, voiceNotes, dictionary, newWord,
                 newReplacement, mediaRecorder, recordingStart, now, auth, loadNotes,
                 loadDict, ops, remoteNotes, remoteDict>>

WithUser(record) == record @@ [user_id |-> user]

HasId(store, id) == \E i \in 1..Len(store) : store[i].id = id

\* the store executes voice_notes.create (the id is the primary key of the
\* collection); the answer is on its way back
CreateServe(r) ==
  /\ rec[r].pr = "create"
  /\ ~HasId(remoteNotes, rec[r].newNote.id)
  /\ remoteNotes' = Append(remoteNotes, WithUser(rec[r].newNote))
  /\ rec' = [rec EXCEPT ![r].pr = "created"]
  /\ UNCHANGED <<uiVars, now, auth, loadNotes, loadDict, ops, remoteDict>>

\* the new note is put at the end of the list instead of its head
CreateResolveAppends(r) ==
  /\ rec[r].pr = "created"
  /\ currentNote' = rec[r].correctedText
  /\ voiceNotes' = Append(voiceNotes, rec[r].newNote)
  /\ isTranscribing' = FALSE
  /\ rec' = [rec EXCEPT ![r].pr = "done", ![r].toast = "Transcription completed!"]
  /\ UNCHANGED <<user, isRecording, dictionary, newWord, newReplacement, mediaRecorder,
                 recordingStart, now, auth, loadNotes, loadDict, ops, remoteNotes,
                 remoteDict>>

\* the await on voice_notes.create returns: the state is updated
CreateResolve(r) ==
  /\ rec[r].pr = "created"
  /\ currentNote' = rec[r].correctedText
  /\ voiceNotes' = <<rec[r].newNote>> \o voiceNotes
  /\ isTranscribing' = FALSE
  /\ rec' = [rec EXCEPT ![r].pr = "done", ![r].toast = "Transcription completed!"]
  /\ UNCHANGED <<user, isRecording, dictionary, newWord, newReplacement, mediaRecorder,
                 recordingStart, now, auth, loadNotes, loadDict, ops, remoteNotes,
                 remoteDict>>

\* the note is put into the list before the store write is known to succeed
CreateRejectKeepsNote(r) ==
  /\ rec[r].pr = "create"
  /\ Catch(rec, r, "voice_notes.create rejected")
  /\ voiceNotes' = <<rec[r].newNote>> \o voiceNotes
  /\ UNCHANGED <<user, isRecording, currentNote, dictionary, newWord, newReplacement,
                 mediaRecorder, recordingStart, now, auth, loadNotes, loadDict, ops,
                 remoteNotes, remoteDict>>

CreateReject(r) ==
  /\ rec[r].pr = "create"
  /\ Catch(rec, r, "voice_notes.create rejected")
  /\ UNCHANGED <<user, isRecording, currentNote, voiceNotes, dictionary, newWord,
                 newReplacement, mediaRecorder, recordingStart, now, auth, loadNotes,
                 loadDict, ops, remoteNotes, remoteDict>>

\* ------------------------------------------------------ dictionary inputs
SetNewWord(w) ==
  /\ user # "null"
  /\ newWord # w
  /\ newWord' = w
  /\ UNCHANGED <<user, isRecording, isTranscribing, currentNote, voiceNotes, dictionary,
                 newReplacement, mediaRecorder, recordingStart, now, auth, loadNotes,
                 loadDict, rec, ops, remoteNotes, remoteDict>>

SetNewReplacement(w) ==
  /\ user # "null"
  /\ newReplacement # w
  /\ newReplacement' = w
  /\ UNCHANGED <<user, isRecording, isTranscribing, currentNote, voiceNotes, dictionary,
                 newWord, mediaRecorder, recordingStart, now, auth, loadNotes, loadDict,
                 rec, ops, remoteNotes, remoteDict>>

\* ---------------------------------------------------- addDictionaryEntry
FreeOp(o) ==
  /\ ops[o].pc = "unused"
  /\ \A q \in OpIds : q < o => ops[q].pc # "unused"

HasWord(store, word) == \E i \in 1..Len(store) : store[i].word = word

\* the entry is appended to the in-memory dictionary at the click, before the
\* create call has been answered
AddDictionaryEntryOptimistic(o) ==
  /\ user # "null"
  /\ FreeOp(o)
  /\ Trim(newWord) # <<>>
  /\ Trim(newReplacement) # <<>>
  /\ ops' = [ops EXCEPT ![o] = [kind |-> "addDictionaryEntry", pc |-> "pending",
                                key |-> Trim(newWord),
                                entry |-> [word |-> Trim(newWord),
                                           replacement |-> Trim(newReplacement),
                                           user_id |-> user]]]
  /\ dictionary' = Append(dictionary, [word |-> Trim(newWord),
                                       replacement |-> Trim(newReplacement),
                                       user_id |-> user])
  /\ UNCHANGED <<user, isRecording, isTranscribing, currentNote, voiceNotes, newWord,
                 newReplacement, mediaRecorder, recordingStart, now, auth, loadNotes,
                 loadDict, rec, remoteNotes, remoteDict>>

\* the click: return on a blank input, else call dictionary_entries.create
AddDictionaryEntry(o) ==
  /\ user # "null"
  /\ FreeOp(o)
  /\ Trim(newWord) # <<>>
  /\ Trim(newReplacement) # <<>>
  /\ ops' = [ops EXCEPT ![o] = [kind |-> "addDictionaryEntry", pc |-> "pending",
                                key |-> Trim(newWord),
                                entry |-> [word |-> Trim(newWord),
                                           replacement |-> Trim(newReplacement),
                                           user_id |-> user]]]
  /\ UNCHANGED <<uiVars, now, auth, loadNotes, loadDict, rec, remoteNotes, remoteDict>>

\* the store executes dictionary_entries.create (the word is the primary key
\* of the collection); the answer is on its way back
AddDictionaryEntryServe(o) ==
  /\ ops[o].kind = "addDictionaryEntry"
  /\ ops[o].pc = "pending"
  /\ ~HasWord(remoteDict, ops[o].key)
  /\ remoteDict' = Append(remoteDict, ops[o].entry)
  /\ ops' = [ops EXCEPT ![o].pc = "served"]
  /\ UNCHANGED <<uiVars, now, auth, loadNotes, loadDict, rec, remoteNotes>>

\* the await on dictionary_entries.create returns
AddDictionaryEntryResolve(o) ==
  /\ ops[o].kind = "addDictionaryEntry"
  /\ ops[o].pc = "served"
  /\ dictionary' = Append(dictionary, ops[o].entry)
  /\ newWord' = <<>>
  /\ newReplacement' = <<>>
  /\ ops' = [ops EXCEPT ![o].pc = "done"]
  /\ UNCHANGED <<user, isRecording, isTranscribing, currentNote, voiceNotes,
                 mediaRecorder, recordingStart, now, auth, loadNotes, loadDict, rec,
                 remoteNotes, remoteDict>>

AddDictionaryEntryReject(o) ==
  /\ ops[o].kind = "addDictionaryEntry"
  /\ ops[o].pc = "pending"
  /\ ops' = [ops EXCEPT ![o].pc = "failed"]
  /\ UNCHANGED <<uiVars, now, auth, loadNotes, loadDict, rec, remoteNotes, remoteDict>>

\* ------------------------------------------------- deleteDictionaryEntry
RECURSIVE WithoutWord(_, _)
WithoutWord(s, word) ==
  IF s = <<>> THEN <<>>
  ELSE IF Head(s).word # word THEN <<Head(s)>> \o WithoutWord(Tail(s), word)
  ELSE WithoutWord(Tail(s), word)

DeleteDictionaryEntry(o, i) ==
  /\ user # "null"
  /\ FreeOp(o)
  /\ i \in 1..Len(dictionary)
  /\ ops' = [ops EXCEPT ![o] = [kind |-> "deleteDictionaryEntry", pc |-> "pending",
                                key |-> dictionary[i].word, entry |-> <<>>]]
  /\ UNCHANGED <<uiVars, now, auth, loadNotes, loadDict, rec, remoteNotes, remoteDict>>

\* the store executes dictionary_entries.delete(word)
DeleteDictionaryEntryServe(o) ==
  /\ ops[o].kind = "deleteDictionaryEntry"
  /\ ops[o].pc = "pending"
  /\ remoteDict' = WithoutWord(remoteDict, ops[o].key)
  /\ ops' = [ops EXCEPT ![o].pc = "served"]
  /\ UNCHANGED <<uiVars, now, auth, loadNotes, loadDict, rec, remoteNotes>>

\* the await on dictionary_entries.delete returns
DeleteDictionaryEntryResolve(o) ==
  /\ ops[o].kind = "deleteDictionaryEntry"
  /\ ops[o].pc = "served"
  /\ dictionary' = WithoutWord(dictionary, ops[o].key)
  /\ ops' = [ops EXCEPT ![o].pc = "done"]
  /\ UNCHANGED <<user, isRecording, isTranscribing, currentNote, voiceNotes, newWord,
                 newReplacement, mediaRecorder, recordingStart, now, auth, loadNotes,
                 loadDict, rec, remoteNotes, remoteDict>>

DeleteDictionaryEntryReject(o) ==
  /\ ops[o].kind = "deleteDictionaryEntry"
  /\ ops[o].pc = "pending"
  /\ ops' = [ops EXCEPT ![o].pc = "failed"]
  /\ UNCHANGED <<uiVars, now, auth, loadNotes, loadDict, rec, remoteNotes, remoteDict>>

\* ------------------------------------------------------------ deleteNote
RECURSIVE WithoutId(_, _)
WithoutId(s, id) ==
  IF s = <<>> THEN <<>>
  ELSE IF Head(s).id # id THEN <<Head(s)>> \o WithoutId(Tail(s), id)
  ELSE WithoutId(Tail(s), id)

DeleteNote(o, i) ==
  /\ user # "null"
  /\ FreeOp(o)
  /\ i \in 1..Len(voiceNotes)
  /\ ops' = [ops EXCEPT ![o] = [kind |-> "deleteNote", pc |-> "pending",
                                key |-> voiceNotes[i].id, entry |-> <<>>]]
  /\ UNCHANGED <<uiVars, now, auth, loadNotes, loadDict, rec, remoteNotes, remoteDict>>

\* the store executes voice_notes.delete(id)
DeleteNoteServe(o) ==
  /\ ops[o].kind = "deleteNote"
  /\ ops[o].pc = "pending"
  /\ remoteNotes' = WithoutId(remoteNotes, ops[o].key)
  /\ ops' = [ops EXCEPT ![o].pc = "served"]
  /\ UNCHANGED <<uiVars, now, auth, loadNotes, loadDict, rec, remoteDict>>

\* the await on voice_notes.delete returns
DeleteNoteResolve(o) ==
  /\ ops[o].kind = "deleteNote"
  /\ ops[o].pc = "served"
  /\ voiceNotes' = WithoutId(voiceNotes, ops[o].key)
  /\ ops' = [ops EXCEPT ![o].pc = "done"]
  /\ UNCHANGED <<user, isRecording, isTranscribing, currentNote, dictionary, newWord,
                 newReplacement, mediaRecorder, recordingStart, now, auth, loadNotes,
                 loadDict, rec, remoteNotes, remoteDict>>

DeleteNoteReject(o) ==
  /\ ops[o].kind = "deleteNote"
  /\ ops[o].pc = "pending"
  /\ ops' = [ops EXCEPT ![o].pc = "failed"]
  /\ UNCHANGED <<uiVars, now, auth, loadNotes, loadDict, rec, remoteNotes, remoteDict>>

\* ------------------------------------------------------- specification
Next ==
  \/ Tick
  \/ AuthResolve
  \/ AuthReject
  \/ LoadVoiceNotesServe
  \/ LoadVoiceNotesResolve
  \/ LoadVoiceNotesReject
  \/ LoadDictionaryServe
  \/ LoadDictionaryResolve
  \/ LoadDictionaryReject
  \/ \E r \in Starts : StartRecording(r)
  \/ \E r \in Starts : GetUserMediaReject(r)
  \/ \E r \in Starts : RecorderCtorThrows(r)
  \/ \E r \in Starts : RecorderStartThrows(r)
  \/ \E r \in Starts : GetUserMediaResolve(r)
  \/ \E r \in Starts, size \in 0..MaxChunkSize : Slice(r, size)
  \/ StopRecording
  \/ \E r \in Starts, size \in 0..MaxChunkSize : RecorderOnStop(r, size)
  \/ \E r \in Starts : ReaderOnLoad(r)
  \/ \E r \in Starts : ReaderOnError(r)
  \/ \E r \in Starts, text \in Transcripts : TranscribeResolve(r, text)
  \/ \E r \in Starts : TranscribeReject(r)
  \/ \E r \in Starts, text \in Corrections : GenerateResolve(r, text)
  \/ \E r \in Starts : GenerateReject(r)
  \/ \E r \in Starts : CreateServe(r)
  \/ \E r \in Starts : CreateResolve(r)
  \/ \E r \in Starts : CreateReject(r)
  \/ \E w \in WordInputs : SetNewWord(w)
  \/ \E w \in ReplacementInputs : SetNewReplacement(w)
  \/ \E o \in OpIds : AddDictionaryEntry(o)
  \/ \E o \in OpIds : AddDictionaryEntryServe(o)
  \/ \E o \in OpIds : AddDictionaryEntryResolve(o)
  \/ \E o \in OpIds : AddDictionaryEntryReject(o)
  \/ \E o \in OpIds, i \in 1..2 : DeleteDictionaryEntry(o, i)
  \/ \E o \in OpIds : DeleteDictionaryEntryServe(o)
  \/ \E o \in OpIds : DeleteDictionaryEntryResolve(o)
  \/ \E o \in OpIds : DeleteDictionaryEntryReject(o)
  \/ \E o \in OpIds, i \in 1..3 : DeleteNote(o, i)
  \/ \E o \in OpIds : DeleteNoteServe(o)
  \/ \E o \in OpIds : DeleteNoteResolve(o)
  \/ \E o \in OpIds : DeleteNoteReject(o)

Spec == Init /\ [][Next]_vars

\* The recording flow on its own: sign-in, the clock, the record button, the
\* recorder's events and the pipeline, while the two initial list calls stay
\* outstanding and the user leaves the dictionary and the history alone.
NextRecording ==
  \/ Tick
  \/ AuthResolve
  \/ AuthReject
  \/ \E r \in Starts : StartRecording(r)
  \/ \E r \in Starts : GetUserMediaReject(r)
  \/ \E r \in Starts : RecorderCtorThrows(r)
  \/ \E r \in Starts : RecorderStartThrows(r)
  \/ \E r \in Starts : GetUserMediaResolve(r)
  \/ \E r \in Starts, size \in 0..MaxChunkSize : Slice(r, size)
  \/ StopRecording
  \/ \E r \in Starts, size \in 0..MaxChunkSize : RecorderOnStop(r, size)
  \/ \E r \in Starts : ReaderOnLoad(r)
  \/ \E r \in Starts : ReaderOnError(r)
  \/ \E r \in Starts, text \in Transcripts : TranscribeResolve(r, text)
  \/ \E r \in Starts : TranscribeReject(r)
  \/ \E r \in Starts, text \in Corrections : GenerateResolve(r, text)
  \/ \E r \in Starts : GenerateReject(r)
  \/ \E r \in Starts : CreateServe(r)
  \/ \E r \in Starts : CreateResolve(r)
  \/ \E r \in Starts : CreateReject(r)

SpecRecording == Init /\ [][NextRecording]_vars

\* Every awaited call is eventually answered, one way or the other, and the
\* browser runs the task a stopped recorder queued.
PipelineStep(r) ==
  \/ \E size \in 0..MaxChunkSize : RecorderOnStop(r, size)
  \/ ReaderOnLoad(r)
  \/ ReaderOnError(r)
  \/ \E text \in Transcripts : TranscribeResolve(r, text)
  \/ TranscribeReject(r)
  \/ \E text \in Corrections : GenerateResolve(r, text)
  \/ GenerateReject(r)
  \/ CreateServe(r)
  \/ CreateResolve(r)
  \/ CreateReject(r)

SpecRecordingFair ==
  /\ Init
  /\ [][NextRecording]_vars
  /\ \A r \in Starts : WF_vars(PipelineStep(r))

\* The whole application around a single recording and a single edit: the
\* initial list calls, one dictionary or history edit and the recording flow
\* interleave freely.
First == {r \in Starts : r = 1}

FirstOp == {o \in OpIds : o = 1}

NextStore ==
  \/ Tick
  \/ AuthResolve
  \/ AuthReject
  \/ LoadVoiceNotesServe
  \/ LoadVoiceNotesResolve
  \/ LoadVoiceNotesReject
  \/ LoadDictionaryServe
  \/ LoadDictionaryResolve
  \/ LoadDictionaryReject
  \/ \E r \in First : StartRecording(r)
  \/ \E r \in First : GetUserMediaReject(r)
  \/ \E r \in First : RecorderCtorThrows(r)
  \/ \E r \in First : RecorderStartThrows(r)
  \/ \E r \in First : GetUserMediaResolve(r)
  \/ \E r \in First, size \in 0..MaxChunkSize : Slice(r, size)
  \/ StopRecording
  \/ \E r \in First, size \in 0..MaxChunkSize : RecorderOnStop(r, size)
  \/ \E r \in First : ReaderOnLoad(r)
  \/ \E r \in First : ReaderOnError(r)
  \/ \E r \in First, text \in Transcripts : TranscribeResolve(r, text)
  \/ \E r \in First : TranscribeReject(r)
  \/ \E r \in First, text \in Corrections : GenerateResolve(r, text)
  \/ \E r \in First : GenerateReject(r)
  \/ \E r \in First : CreateServe(r)
  \/ \E r \in First : CreateResolve(r)
  \/ \E r \in First : CreateReject(r)
  \/ \E w \in WordInputs : SetNewWord(w)
  \/ \E w \in ReplacementInputs : SetNewReplacement(w)
  \/ \E o \in FirstOp : AddDictionaryEntry(o)
  \/ \E o \in FirstOp : AddDictionaryEntryServe(o)
  \/ \E o \in FirstOp : AddDictionaryEntryResolve(o)
  \/ \E o \in FirstOp : AddDictionaryEntryReject(o)
  \/ \E o \in FirstOp, i \in 1..2 : DeleteDictionaryEntry(o, i)
  \/ \E o \in FirstOp : DeleteDictionaryEntryServe(o)
  \/ \E o \in FirstOp : DeleteDictionaryEntryResolve(o)
  \/ \E o \in FirstOp : DeleteDictionaryEntryReject(o)
  \/ \E o \in FirstOp, i \in 1..3 : DeleteNote(o, i)
  \/ \E o \in FirstOp : DeleteNoteServe(o)
  \/ \E o \in FirstOp : DeleteNoteResolve(o)
  \/ \E o \in FirstOp : DeleteNoteReject(o)

SpecStore == Init /\ [][NextStore]_vars

\* The dictionary editor on its own: sign-in, the initial loadDictionary call
\* and the user's additions and deletions, in every interleaving of the calls
\* and their answers.
NextDictionary ==
  \/ AuthResolve
  \/ AuthReject
  \/ LoadDictionaryServe
  \/ LoadDictionaryResolve
  \/ LoadDictionaryReject
  \/ \E w \in WordInputs : SetNewWord(w)
  \/ \E w \in ReplacementInputs : SetNewReplacement(w)
  \/ \E o \in OpIds : AddDictionaryEntry(o)
  \/ \E o \in OpIds : AddDictionaryEntryServe(o)
  \/ \E o \in OpIds : AddDictionaryEntryResolve(o)
  \/ \E o \in OpIds : AddDictionaryEntryReject(o)
  \/ \E o \in OpIds, i \in 1..3 : DeleteDictionaryEntry(o, i)
  \/ \E o \in OpIds : DeleteDictionaryEntryServe(o)
  \/ \E o \in OpIds : DeleteDictionaryEntryResolve(o)
  \/ \E o \in OpIds : DeleteDictionaryEntryReject(o)

SpecDictionary == Init /\ [][NextDictionary]_vars

\* The substitution on its own: the user is signed in, both list calls have
\* been answered, the dictionary holds the entries the user added, in the
\* order they were added, and one recording is made and transcribed.
InitSubstitution ==
  /\ user = "u1"
  /\ isRecording = FALSE
  /\ isTranscribing = FALSE
  /\ currentNote = <<>>
  /\ voiceNotes = <<>>
  /\ dictionary \in Dictionaries
  /\ newWord = <<>>
  /\ newReplacement = <<>>
  /\ mediaRecorder = 0
  /\ recordingStart = 0
  /\ now = 1
  /\ auth = "resolved"
  /\ loadNotes = [pc |-> "done", snapshot |-> <<>>]
  /\ loadDict = [pc |-> "done", snapshot |-> <<>>]
  /\ rec = [r \in Starts |-> NoRec]
  /\ ops = [o \in OpIds |-> NoOp]
  /\ remoteNotes = <<>>
  /\ remoteDict = dictionary

NextSubstitution ==
  \/ \E r \in First : StartRecording(r)
  \/ \E r \in First : GetUserMediaResolve(r)
  \/ StopRecording
  \/ \E r \in First, size \in 1..MaxChunkSize : RecorderOnStop(r, size)
  \/ \E r \in First : ReaderOnLoad(r)
  \/ \E r \in First, text \in Texts : TranscribeResolve(r, text)

SpecSubstitution == InitSubstitution /\ [][NextSubstitution]_vars

\* ---------------------------------------------------------------- claims
InFlight ==
  {"stopping", "readAsDataURL", "transcribeAudio", "generateText", "create", "created"}

Recording == {r \in Starts : rec[r].state = "recording"}

Transcribing == {r \in Starts : rec[r].pr \in InFlight}

\* C1: at most one recording session exists at any time: never more than one
\* recorder is started and not yet stopped, and no recorder is started while
\* the pipeline of an earlier recording is still in flight.
C1_OneSession ==
  /\ [](Cardinality(Recording) <= 1)
  /\ [][\A r \in Starts :
          (rec[r].state # "recording" /\ rec'[r].state = "recording")
            => Transcribing = {}]_vars

Idle ==
  /\ ~isRecording
  /\ ~isTranscribing
  /\ \A r \in Starts : rec[r].pc # "getUserMedia"

\* C2: every stream startRecording acquired is released once the application
\* is idle again (not recording, not transcribing, no start pending).
C2_StreamsReleased == Idle => \A r \in Starts : rec[r].stream # "live"

\* C3: the duration stored in the note of a successful pipeline is the time the
\* recording was stopped minus the time that same recording was started, >= 0.
C3_Duration ==
  \A r \in Starts :
    rec[r].pr = "done" =>
      /\ rec[r].newNote.duration = rec[r].stoppedAt - rec[r].startedAt
      /\ rec[r].newNote.duration >= 0

\* C4: the lifecycle is idle -> recording -> transcribing -> idle: the two flags
\* are never both true, recording is entered only from idle, transcribing only
\* from recording, and a failed startRecording changes neither flag.
C4_Lifecycle ==
  /\ [](~(isRecording /\ isTranscribing))
  /\ [][(~isRecording /\ isRecording') => ~isTranscribing]_vars
  /\ [][(~isTranscribing /\ isTranscribing') => (isRecording /\ ~isRecording')]_vars
  /\ [][(\E r \in Starts : rec[r].pc # "failed" /\ rec'[r].pc = "failed")
          => UNCHANGED <<isRecording, isTranscribing>>]_vars

Processed(r) == rec[r].pr \notin {"none", "stopping"}

\* C5: a recording whose payload is empty fails before any external service is
\* called, and with no chunks at all the failure is 'No audio data recorded'.
C5_EmptyPayloadFailsEarly ==
  \A r \in Starts :
    (Processed(r) /\ BlobSize(rec[r].chunks) = 0) =>
      /\ rec[r].pr = "failed"
      /\ rec[r].calls = <<>>
      /\ Len(rec[r].chunks) = 0 => rec[r].err = "No audio data recorded"

C5_Witness ==
  \E r \in Starts :
    /\ rec[r].pr = "failed"
    /\ rec[r].chunks = <<>>
    /\ rec[r].err = "No audio data recorded"

EncodingErrors == {"Failed to convert audio to base64", "FileReader error"}

\* C6: a recording that failed for lack of data and one that failed in the
\* encoding step end with different reports to the user.
C6_DistinctReports ==
  \A r, q \in Starts :
    (rec[r].err = "No audio data recorded" /\ rec[q].err \in EncodingErrors)
      => rec[r].toast # rec[q].toast

AllCalls == <<"transcribeAudio", "generateText", "voice_notes.create">>

CallsMade(r) ==
  CASE rec[r].pr \in {"none", "stopping", "readAsDataURL"} -> 0
    [] rec[r].pr = "transcribeAudio" -> 1
    [] rec[r].pr = "generateText" -> 2
    [] rec[r].pr \in {"create", "created", "done"} -> 3
    [] rec[r].err = "transcribeAudio rejected" -> 1
    [] rec[r].err = "generateText rejected" -> 2
    [] rec[r].err = "voice_notes.create rejected" -> 3
    [] OTHER -> 0

Done == {r \in Starts : rec[r].pr = "done"}

Stored == {r \in Starts : rec[r].pr \in {"created", "done"}}

\* C7: the external calls of one pipeline are transcribeAudio, generateText and
\* voice_notes.create, in this order, each at most once and each only after the
\* one before it resolved; a failed step ends the calls; a successful pipeline
\* has stored exactly one note.
C7_CallsInSequence ==
  /\ \A r \in Starts : rec[r].calls = SubSeq(AllCalls, 1, CallsMade(r))
  /\ \A r \in Starts : rec[r].err # "" => rec[r].pr = "failed"
  /\ Len(remoteNotes) = Len(InitialRemoteNotes) + Cardinality(Stored)
  /\ Len(voiceNotes) = Cardinality(Done)

C7_Witness ==
  /\ \E r \in Starts : rec[r].pr = "done" /\ rec[r].calls = AllCalls
  /\ \E r \in Starts : rec[r].pr = "failed" /\ rec[r].calls = <<"transcribeAudio">>

Preexisting(n) == \E i \in 1..Len(InitialRemoteNotes) : n = InitialRemoteNotes[i]

FromSuccess(n) == \E r \in Done : n = rec[r].newNote

FromStored(n) == \E r \in Stored : n = WithUser(rec[r].newNote)

\* C8: a recording that fails at any step adds no note: every note in memory
\* and in the store was there before the session or is the note of a pipeline
\* that succeeded, currentNote is the text of a pipeline that succeeded, and a
\* failed startRecording never enters the pipeline.
C8_NoPartialNote ==
  /\ \A i \in 1..Len(voiceNotes) : Preexisting(voiceNotes[i]) \/ FromSuccess(voiceNotes[i])
  /\ \A i \in 1..Len(remoteNotes) : Preexisting(remoteNotes[i]) \/ FromStored(remoteNotes[i])
  /\ Len(voiceNotes) <= Cardinality(Done) + Len(InitialRemoteNotes)
  /\ Len(remoteNotes) <= Cardinality(Stored) + Len(InitialRemoteNotes)
  /\ currentNote # <<>> => \E r \in Done : currentNote = rec[r].correctedText
  /\ \A r \in Starts : rec[r].pc = "failed" => rec[r].pr = "none"

C8_Witness ==
  /\ \E r \in Starts : rec[r].pr = "failed" /\ rec[r].err = "voice_notes.create rejected"
  /\ \E r \in Starts : rec[r].pc = "failed"

OpServed(o, kind) ==
  ops[o].kind = kind /\ ops[o].pc = "pending" /\ ops'[o].pc = "served"

OpResolves(o, kind) ==
  ops[o].kind = kind /\ ops[o].pc = "served" /\ ops'[o].pc = "done"

\* C9: the in-memory dictionary and notes list change only in the step in which
\* the corresponding remote call returns after the store has executed it (or an
\* initial list call delivers), and a step in which a remote call fails leaves
\* both as they were.
C9_MemoryAfterRemote ==
  [][/\ dictionary' # dictionary =>
          \/ loadDict.pc = "served" /\ loadDict'.pc = "done"
          \/ \E o \in OpIds : OpResolves(o, "addDictionaryEntry")
          \/ \E o \in OpIds : OpResolves(o, "deleteDictionaryEntry")
     /\ voiceNotes' # voiceNotes =>
          \/ loadNotes.pc = "served" /\ loadNotes'.pc = "done"
          \/ \E o \in OpIds : OpResolves(o, "deleteNote")
          \/ \E r \in Starts : rec[r].pr = "created" /\ rec'[r].pr = "done"
     /\ \A o \in OpIds :
          /\ OpServed(o, "addDictionaryEntry") =>
               ~HasWord(remoteDict, ops[o].key) /\ HasWord(remoteDict', ops[o].key)
          /\ OpServed(o, "deleteDictionaryEntry") => ~HasWord(remoteDict', ops[o].key)
          /\ OpServed(o, "deleteNote") => ~HasId(remoteNotes', ops[o].key)
          /\ ops'[o].pc = "served" => ops[o].pc \in {"pending", "served"}
     /\ \A r \in Starts :
          /\ (rec[r].pr = "create" /\ rec'[r].pr = "created") =>
               ~HasId(remoteNotes, rec[r].newNote.id) /\ HasId(remoteNotes', rec[r].newNote.id)
          /\ rec'[r].pr = "created" => rec[r].pr \in {"create", "created"}
     /\ (\E o \in OpIds : ops[o].pc = "pending" /\ ops'[o].pc = "failed")
          => UNCHANGED <<dictionary, voiceNotes, remoteDict, remoteNotes>>
     /\ (\E r \in Starts : rec[r].pr = "create" /\ rec'[r].pr = "failed")
          => UNCHANGED <<dictionary, voiceNotes, remoteDict, remoteNotes>>
    ]_vars

C9_Witness ==
  /\ \E o \in OpIds : ops[o].pc = "failed"
  /\ \E r \in Starts : rec[r].err = "voice_notes.create rejected"
  /\ loadDict.pc = "done"

Ended(r) == rec[r].pr \in {"done", "failed"}

\* C10: a recording that enters the transcribing state leaves it, whether its
\* pipeline succeeds or fails at any step, once every awaited call has been
\* answered; a failed pipeline makes no further call.
C10_TranscribingEnds ==
  /\ isTranscribing ~> ~isTranscribing
  /\ \A r \in Starts : (rec[r].pr \in InFlight) ~> Ended(r)
  /\ [][\A r \in Starts : rec[r].pr = "failed" => rec'[r] = rec[r]]_vars

C10_Witness ==
  /\ ~isTranscribing
  /\ \E r \in Starts : rec[r].pr = "done"
  /\ \E r \in Starts : rec[r].pr = "failed" /\ rec[r].err = "generateText rejected"

\* Date.now().toString() read back as a number
IdNumber(id) == CHOOSE n \in 0..MaxTime : ToString(n) = id

UniqueIds(notes) ==
  \A i, j \in 1..Len(notes) : i # j => notes[i].id # notes[j].id

\* the store keeps its records in the order in which they were created
IncreasingIds(notes) ==
  \A i, j \in 1..Len(notes) : i < j => IdNumber(notes[i].id) < IdNumber(notes[j].id)

\* C11: note identifiers are unique and strictly increasing in creation order:
\* no two notes in memory and no two notes in the store have the same id, and
\* a note created later has a larger id than every note created before it.
C11_UniqueIncreasingIds ==
  /\ UniqueIds(voiceNotes)
  /\ UniqueIds(remoteNotes)
  /\ IncreasingIds(remoteNotes)

UniqueWords(entries) ==
  \A i, j \in 1..Len(entries) : i # j => entries[i].word # entries[j].word

\* C12: dictionary keys are unique: the in-memory dictionary never holds two
\* entries with the same word, whatever the user adds and deletes and in
\* whatever order the initial loadDictionary call and those calls are answered
\* (the store rejects a create of a word it already holds).
C12_UniqueKeys == UniqueWords(dictionary)

RemoveAt(s, i) == SubSeq(s, 1, i - 1) \o SubSeq(s, i + 1, Len(s))

\* C13: a successful deleteDictionaryEntry(w) removes exactly one entry from
\* the in-memory dictionary, the one whose word is w; every other entry stays,
\* unchanged and in the same relative order, and the notes list is untouched
\* (stated for a call that returns while w is still in the dictionary).
C13_DeleteRemovesOne ==
  [][\A o \in OpIds :
       (OpResolves(o, "deleteDictionaryEntry") /\ HasWord(dictionary, ops[o].key)) =>
         /\ \E i \in 1..Len(dictionary) :
              /\ dictionary[i].word = ops[o].key
              /\ dictionary' = RemoveAt(dictionary, i)
         /\ UNCHANGED voiceNotes]_vars

OrderedByTimestampDesc(notes) ==
  \A i, j \in 1..Len(notes) : i < j => notes[i].timestamp >= notes[j].timestamp

\* C14: when a pipeline succeeds its note becomes the first element of the
\* in-memory notes list, and in every reachable state, after any loads, note
\* creations and note deletions, that list is ordered by timestamp descending.
C14_NewestFirst ==
  /\ [](OrderedByTimestampDesc(voiceNotes))
  /\ [][\A r \in Starts :
          (rec[r].pr = "created" /\ rec'[r].pr = "done")
            => (voiceNotes' # <<>> /\ voiceNotes'[1] = rec[r].newNote)]_vars

C14_Witness ==
  \E r \in Starts :
    /\ rec[r].pr = "done"
    /\ Len(voiceNotes) >= 2
    /\ voiceNotes[1] = rec[r].newNote
    /\ voiceNotes[2].timestamp < voiceNotes[1].timestamp

\* the word occurs in s at position i as a whole word, letter case aside: the
\* characters are the word's and no word character touches it on either side
WholeWordAt(s, word, i) ==
  /\ i + Len(word) - 1 <= Len(s)
  /\ \A k \in 1..Len(word) : Lower(s[i + k - 1]) = Lower(word[k])
  /\ ~WordAt(s, i - 1)
  /\ ~WordAt(s, i + Len(word))

RECURSIVE SubstituteFrom(_, _, _, _)
SubstituteFrom(s, word, repl, i) ==
  IF i > Len(s) THEN <<>>
  ELSE IF WholeWordAt(s, word, i)
       THEN repl \o SubstituteFrom(s, word, repl, i + Len(word))
       ELSE <<s[i]>> \o SubstituteFrom(s, word, repl, i + 1)

\* every whole-word occurrence of each entry's word replaced, entry by entry
RECURSIVE Substitute(_, _)
Substitute(dict, s) ==
  IF dict = <<>> THEN s
  ELSE Substitute(Tail(dict),
                  SubstituteFrom(s, Head(dict).word, Head(dict).replacement, 1))

NoOccurrence(dict, s) ==
  \A e \in 1..Len(dict), i \in 1..Len(s) : ~WholeWordAt(s, dict[e].word, i)

Substituted(r) == Len(rec[r].calls) >= 2

\* C15: the substitution replaces every whole-word, case-insensitive
\* occurrence of each entry's word by its replacement and nothing else: an
\* occurrence inside a longer word stays, and a transcript with no whole-word
\* occurrence of any key comes out unchanged.
C15_WholeWordSubstitution ==
  \A r \in Starts :
    Substituted(r) =>
      /\ rec[r].processedText = Substitute(rec[r].capDict, rec[r].originalText)
      /\ NoOccurrence(rec[r].capDict, rec[r].originalText)
           => rec[r].processedText = rec[r].originalText

RECURSIVE WordsFrom(_, _)
WordsFrom(s, i) ==
  IF i > Len(s) THEN {}
  ELSE IF ~IsWordChar(s[i]) THEN WordsFrom(s, i + 1)
  ELSE LET j == CHOOSE k \in i..Len(s) :
                  /\ \A m \in i..k : IsWordChar(s[m])
                  /\ ~WordAt(s, k + 1)
       IN {[m \in 1..(j - i + 1) |-> Lower(s[i + m - 1])]} \cup WordsFrom(s, j + 1)

\* the words of a text, in lower case
Words(s) == WordsFrom(s, 1)

\* no replacement uses a word of any key
DisjointVocabulary(dict) ==
  \A e, f \in 1..Len(dict) : Words(dict[e].word) \cap Words(dict[f].replacement) = {}

\* C16: substitution is idempotent: applying a dictionary (every entry with a
\* replacement) to its own output gives that output again; stated here with
\* the assumption that the replacements use none of the keys' words.
C16_Idempotent ==
  \A r \in Starts :
    (Substituted(r) /\ DisjointVocabulary(rec[r].capDict)) =>
      ApplyDictionary(rec[r].capDict, rec[r].processedText) = rec[r].processedText

Orders(dict) ==
  {p \in [1..Len(dict) -> 1..Len(dict)] : \A i, j \in 1..Len(dict) : p[i] = p[j] => i = j}

Reordered(dict, p) == [i \in 1..Len(dict) |-> dict[p[i]]]

\* no two keys share a word, letter case aside
NonOverlappingKeys(dict) ==
  \A e, f \in 1..Len(dict) : e # f => Words(dict[e].word) \cap Words(dict[f].word) = {}

\* C17: substitution is order-independent: with non-overlapping keys, applying the
\* entries in any order gives the same substituted text, and that text is the
\* one put into the correction prompt.
C17_OrderIndependent ==
  \A r \in Starts :
    (Substituted(r) /\ NonOverlappingKeys(rec[r].capDict)) =>
      \A p \in Orders(rec[r].capDict) :
        ApplyDictionary(Reordered(rec[r].capDict, p), rec[r].originalText)
          = rec[r].processedText

\* both initial list calls have delivered and no call is outstanding
Quiescent ==
  /\ loadNotes.pc = "done"
  /\ loadDict.pc = "done"
  /\ \A o \in OpIds : ops[o].pc \notin {"pending", "served"}
  /\ \A r \in Starts : rec[r].pr \notin InFlight

WordsOf(entries) == {entries[i].word : i \in 1..Len(entries)}

IdsOf(notes) == {notes[i].id : i \in 1..Len(notes)}

\* C18: the in-memory collections mirror the remote store: whenever no remote
\* call is outstanding, the dictionary in memory holds exactly the entries of
\* dictionary_entries and (below the list limit) the notes list holds exactly
\* the notes of voice_notes, however the answers of the two initial list calls
\* interleave with the creates and deletes issued after sign-in.
C18_MemoryMirrorsStore ==
  (Quiescent /\ Len(remoteNotes) <= NotesLimit) =>
    /\ WordsOf(dictionary) = WordsOf(remoteDict)
    /\ IdsOf(voiceNotes) = IdsOf(remoteNotes)

\* C19: the dictionary applied to a recording is the in-memory dictionary as it
\* was when startRecording was invoked for it: what is added, deleted or loaded
\* while the recording or its transcription is in progress does not change the
\* substitution applied to that recording.
C19_DictionaryAtStart ==
  /\ [](\A r \in Starts :
          Substituted(r) =>
            rec[r].processedText = ApplyDictionary(rec[r].capDict, rec[r].originalText))
  /\ [][\A r \in Starts :
          /\ (rec[r].pc = "unused" /\ rec'[r].pc # "unused") => rec'[r].capDict = dictionary
          /\ rec[r].pc # "unused" => rec'[r].capDict = rec[r].capDict]_vars

C19_Witness ==
  \E r \in Starts :
    /\ Substituted(r)
    /\ dictionary # rec[r].capDict
    /\ ApplyDictionary(dictionary, rec[r].originalText) # rec[r].processedText

====
